---- MODULE Spec2Model ----
(***************************************************************************)
(* Poisson significance engine of lib/analysis/modules/Mapper.py.          *)
(*                                                                         *)
(* The module's top-level statements are executed in file order; a call    *)
(* through a global name uses whatever the name is bound to at that        *)
(* moment.  The name poissonProb is bound twice (line 121: the windowed    *)
(* form, line 266: the three-argument form), so the binding is state.      *)
(*                                                                         *)
(* Numbers.  Event times, window bounds and rates are integers (seconds,   *)
(* events per second), so every Poisson mean rate*x used by the scoring    *)
(* path is an integer.  A float is a record [cls, v]: cls "fin" with v the *)
(* value in units of 1/Scale (truncated), or cls "inf" / "nan".  The       *)
(* interpreter is Python 2 (the file uses print statements and xrange)     *)
(* with NumPy/SciPy: float division by a NumPy zero gives inf or nan, by a *)
(* Python zero raises ZeroDivisionError; poisson(mu).cdf is nan for mu < 0 *)
(* and 1 for mu = 0, k >= 0.                                               *)
(***************************************************************************)
EXTENDS Integers, Sequences, FiniteSets, TLC

VARIABLES poissonProbBinding, poissonIntCache, last, nCalls, optimized,
          filePath, files, subdirs, comboItems, comboText, loadedFile, lastCM

mapperVars == <<poissonProbBinding, poissonIntCache, last, nCalls, optimized>>
cmVars == <<filePath, files, subdirs, comboItems, comboText, loadedFile, lastCM>>
vars == <<mapperVars, cmVars>>

(***************************************************************************)
(* Bounds of the model.                                                    *)
(***************************************************************************)
MaxT == 2
MaxLen == 2
MaxRate == 2
MaxCalls == 2

Times == 0..MaxT
Rates == (0 - 1)..MaxRate
EventSeqs == UNION {[1..n -> Times] : n \in 0..MaxLen}

(***************************************************************************)
(* Floats.                                                                 *)
(***************************************************************************)
Scale == 10 * 10 * 10
Fin(v) == [cls |-> "fin", v |-> v]
NaN == [cls |-> "nan", v |-> 0]
Inf == [cls |-> "inf", v |-> 0]
One == Fin(Scale)

\* a / b for NumPy floats (no exception: x/0 is inf, 0/0 and inf/inf are nan)
FloatDiv(a, b) ==
    IF a.cls = "nan" \/ b.cls = "nan" THEN NaN
    ELSE IF a.cls = "inf" THEN (IF b.cls = "inf" THEN NaN ELSE Inf)
    ELSE IF b.cls = "inf" THEN Fin(0)
    ELSE IF b.v = 0 THEN (IF a.v = 0 THEN NaN ELSE Inf)
    ELSE Fin((a.v * Scale) \div b.v)

\* 1. / p
Recip(p) == FloatDiv(One, p)

\* 1.0 - y
OneMinus(y) == IF y.cls = "fin" THEN Fin(Scale - y.v) ELSE y

\* ndarray.min() / ndarray.max() of a non-empty array: nan if any entry is nan
RECURSIVE FloatMin(_)
FloatMin(s) ==
    IF Len(s) = 1 THEN s[1]
    ELSE LET m == FloatMin(Tail(s))
             h == s[1]
         IN IF h.cls = "nan" \/ m.cls = "nan" THEN NaN
            ELSE IF h.cls = "inf" THEN m
            ELSE IF m.cls = "inf" THEN h
            ELSE IF h.v <= m.v THEN h ELSE m

RECURSIVE FloatMax(_)
FloatMax(s) ==
    IF Len(s) = 1 THEN s[1]
    ELSE LET m == FloatMax(Tail(s))
             h == s[1]
         IN IF h.cls = "nan" \/ m.cls = "nan" THEN NaN
            ELSE IF h.cls = "inf" \/ m.cls = "inf" THEN Inf
            ELSE IF h.v >= m.v THEN h ELSE m

\* largest r with r*r <= n (Newton's iteration downwards from n)
RECURSIVE ISqrtFrom(_, _)
ISqrtFrom(n, r) ==
    LET r2 == (r + n \div r) \div 2
    IN IF r2 >= r THEN r ELSE ISqrtFrom(n, r2)
ISqrt(n) == IF n = 0 THEN 0 ELSE ISqrtFrom(n, n)

\* rate ** 0.5 for rate > 0
SqrtRate(rate) == Fin(ISqrt(rate * Scale * Scale))

(***************************************************************************)
(* scipy.stats.poisson(mu).cdf(k) for integer mu and k:                    *)
(* sum over j <= k of exp(-mu) mu^j / j!, computed as the ratio of the     *)
(* partial sum of the series of exp(mu) to the whole series.               *)
(***************************************************************************)
NTerms == 4 * 10

\* sum of the terms 0..k of the series of Scale * exp(mu); term is term j
RECURSIVE ExpLoop(_, _, _, _, _)
ExpLoop(mu, j, term, acc, k) ==
    IF j > k \/ term = 0 THEN acc
    ELSE ExpLoop(mu, j + 1, (term * mu) \div (j + 1), acc + term, k)

ExpSum(mu, k) == ExpLoop(mu, 0, Scale, 0, k)

Big == 2 * Scale * Scale
RatioScaled(a, b) ==
    IF a <= Big THEN (a * Scale) \div b
    ELSE ((a \div Scale) * Scale) \div (b \div Scale)

PoissonCdf(k, mu) ==
    IF mu < 0 THEN NaN
    ELSE IF k < 0 THEN Fin(0)
    ELSE IF k >= NTerms THEN One
    ELSE Fin(RatioScaled(ExpSum(mu, k), ExpSum(mu, NTerms)))

(***************************************************************************)
(* Results of a call.                                                      *)
(***************************************************************************)
Return(v) == [kind |-> "return", val |-> v]
Raise(e) == [kind |-> "raise", exc |-> e]

(***************************************************************************)
(* poissonProb, first definition (line 121): the windowed form.            *)
(* Entry i (1-based here, index i-1 in the source) is                      *)
(* 1 - cdf(i; rate*(x+e)): the count is the position of x in xvals, the    *)
(* events argument is not read.  rate*(x + 1/rate) is rate*x + 1.          *)
(***************************************************************************)
WindowedMu(x, rate, correctForSelection) ==
    IF correctForSelection THEN rate * x + 1 ELSE rate * x

poissonProbWindowed(events, xvals, rate, correctForSelection) ==
    IF correctForSelection /\ rate = 0 /\ Len(xvals) > 0
    THEN Raise("ZeroDivisionError")
    ELSE Return([i \in 1..Len(xvals) |->
                    OneMinus(PoissonCdf(i, WindowedMu(xvals[i], rate, correctForSelection)))])

(***************************************************************************)
(* poissonProb, second definition (line 266): cdf(n-1; l*t).               *)
(***************************************************************************)
poissonProbAtLeastN(n, t, l) == Return(PoissonCdf(n - 1, l * t))

(***************************************************************************)
(* A call of the global name poissonProb from poissonScore (line 153:      *)
(* three positional arguments and the keyword correctForSelection) or      *)
(* from poissonScoreBlame (lines 213-214: a sequence, a list and a rate).  *)
(* Under the second binding the keyword is rejected, and n-1 / l*t on a    *)
(* list are rejected.                                                      *)
(***************************************************************************)
CallPoissonProbSeq(binding, events, xvals, rate, correctForSelection) ==
    IF binding = "windowed"
    THEN poissonProbWindowed(events, xvals, rate, correctForSelection)
    ELSE Raise("TypeError")

(***************************************************************************)
(* poissonScore (line 145).                                                *)
(***************************************************************************)
poissonScore(binding, events, rate) ==
    LET pp == CallPoissonProbSeq(binding, events, events, rate, TRUE)
    IN IF pp.kind = "raise" THEN pp
       ELSE IF Len(pp.val) = 0 THEN Return(One)
       ELSE LET inv == Recip(FloatMin(pp.val))
            IN IF rate < 0 THEN Raise("ValueError")
               ELSE Return(FloatDiv(inv, SqrtRate(rate)))

(***************************************************************************)
(* Lists.  list(x) makes a new list object; the caller's object and the    *)
(* working object are tracked separately, and an in-place operation on the *)
(* working object reaches the caller's object only if the two are aliased. *)
(***************************************************************************)
\* (a variant without the copy: the working object is the caller's object)
ListCopy_Aliased(x) == [caller |-> x, work |-> x, aliased |-> TRUE]

ListCopy(x) == [caller |-> x, work |-> x, aliased |-> FALSE]

InPlace(h, w) == [caller |-> IF h.aliased THEN w ELSE h.caller,
                  work |-> w, aliased |-> h.aliased]

Before(a, b) == a < b
ListSort(h) == InPlace(h, SortSeq(h.work, Before))
ListAppend(h, x) == InPlace(h, Append(h.work, x))
\* list.pop(i) with the 0-based index i
ListPop(h, i) ==
    InPlace(h, [j \in 1..(Len(h.work) - 1) |->
                    IF j <= i THEN h.work[j] ELSE h.work[j + 1]])

\* ev[i:] with the 0-based index i
Suffix(ev, i) == [j \in 1..(Len(ev) - i) |-> ev[j + i]]

AnyNaN(pp) == \E j \in 1..Len(pp) : pp[j].cls = "nan"

\* lines 216-218 and 229-231: assert not any(np.isnan(pp)); return ret.
\* The assert statement is compiled away when the interpreter runs with -O
\* (optimized): the vector is then returned as it is.
AssertNoNaN(pp) ==
    IF ~optimized /\ AnyNaN(pp) THEN Raise("AssertionError") ELSE Return(pp)

(***************************************************************************)
(* poissonScoreBlame (line 204).  Each pass builds ev2 = list(ev) without  *)
(* element i and divides 1/poissonProb(ev, ev[i:], rate) by                *)
(* 1/poissonProb(ev2, ev[i:], rate) entry by entry.  Under the second      *)
(* binding of poissonProb the first pass raises TypeError (ev2 is a list). *)
(***************************************************************************)
RecipAll(pp) == [j \in 1..Len(pp) |-> Recip(pp[j])]
DivAll(a, b) == [j \in 1..Len(a) |-> FloatDiv(a[j], b[j])]

\* one pass of the loop, i 0-based: the entry appended to pp, or the exception
ScoreBlameEntry(binding, ev, rate, i) ==
    LET ev2 == ListPop(ListCopy(ev), i)
        p1 == CallPoissonProbSeq(binding, ev, Suffix(ev, i), rate, FALSE)
        p2 == CallPoissonProbSeq(binding, ev2.work, Suffix(ev, i), rate, FALSE)
    IN IF p1.kind = "raise" THEN [res |-> p1, caller |-> ev2.caller]
       ELSE IF p2.kind = "raise" THEN [res |-> p2, caller |-> ev2.caller]
       ELSE [res |-> Return(FloatMax(DivAll(RecipAll(p1.val), RecipAll(p2.val)))),
             caller |-> ev2.caller]

\* the loop over i in range(n), n = len(ev) taken once at the start
RECURSIVE ScoreBlameLoop(_, _, _, _, _, _)
ScoreBlameLoop(binding, ev, rate, n, i, pp) ==
    IF i >= n THEN [res |-> AssertNoNaN(pp), caller |-> ev]
    ELSE LET e == ScoreBlameEntry(binding, ev, rate, i)
         IN IF e.res.kind = "raise" THEN e
            ELSE ScoreBlameLoop(binding, e.caller, rate, n, i + 1,
                                Append(pp, e.res.val))

\* [res: the return value or exception, caller: the caller's sequence afterwards]
poissonScoreBlame(binding, ev, rate) ==
    IF Len(ev) = 0 THEN [res |-> Return(<<>>), caller |-> ev]
    ELSE ScoreBlameLoop(binding, ev, rate, Len(ev), 0, <<>>)

(***************************************************************************)
(* poissonIntegral (line 169) and its cache poissonIntCache (line 168).    *)
(*                                                                         *)
(* xvals = np.linspace(tMin, tMax, GridN): xvals[j] is                     *)
(* (tMin*(GridN-1) + j*(tMax-tMin)) / (GridN-1) and dt is                  *)
(* (tMax-tMin) / (GridN-1).  A cached curve is the array                   *)
(* [1 - cdf(nev; rate*x) for x in xvals]; it is a function of nev, rate    *)
(* and the grid, and is represented by them.  Its entry j is nan where     *)
(* rate*x < 0, 0 where rate*x = 0 and in (0,1) where rate*x > 0.           *)
(* The returned value tot * dt is represented by its float class and, when *)
(* it is a finite non-zero number, by the slices it adds up.               *)
(***************************************************************************)
GridN == 1000

Curve(nev, rate, tMin, tMax) ==
    [nev |-> nev, rate |-> rate, tMin |-> tMin, tMax |-> tMax]

\* xvals[j] * (GridN - 1) on the grid the curve was built over
XNum(c, j) == c.tMin * (GridN - 1) + j * (c.tMax - c.tMin)

\* class of entry j of the curve: "nan", "zero" or "pos"
ProbCls(c, j) ==
    IF c.rate * XNum(c, j) < 0 THEN "nan"
    ELSE IF c.rate * XNum(c, j) = 0 THEN "zero"
    ELSE "pos"

\* class of (1./curve[i1:i2]).sum(); XNum is linear in j and never negative,
\* so a zero or a positive mean in the slice shows at one of its two ends
SliceCls(c, i1, i2) ==
    IF i1 >= i2 THEN "zero"
    ELSE IF \E j \in {i1, i2 - 1} : ProbCls(c, j) = "nan" THEN "nan"
    ELSE IF \E j \in {i1, i2 - 1} : ProbCls(c, j) = "zero" THEN "inf"
    ELSE "pos"

\* class of tot + s
AddCls(tot, s) ==
    IF tot = "nan" \/ s = "nan" THEN "nan"
    ELSE IF tot = "inf" \/ s = "inf" THEN "inf"
    ELSE IF tot = "pos" \/ s = "pos" THEN "pos"
    ELSE "zero"

\* class of tot * dt, dt having the sign of dtNum (never 0 here)
TimesDtCls(tot, dtNum) ==
    IF tot \in {"nan", "zero"} THEN tot
    ELSE IF dtNum > 0 THEN tot
    ELSE IF tot = "inf" THEN "ninf" ELSE "neg"

\* dt = xvals[1] - xvals[0] in IEEE double arithmetic.  xvals[1] is
\* tMin + step, step = (tMax - tMin) / (GridN - 1), rounded to the spacing
\* 2^-k of the doubles around it.  tMin * 2^k is an integer, so the part
\* of |step| that falls between two doubles is the fraction
\* ((|tMax - tMin| * 2^k) % (GridN - 1)) / (GridN - 1) of the spacing.

\* binary exponent of the doubles in [a, a+1), those just below 1 for a = 0
BinadeExp(a) ==
    IF a = 0 THEN 0 - 1 ELSE CHOOSE e \in 0..30 : 2^e <= a /\ a < 2^(e + 1)

\* k for tMin >= 1: tMin + step lies just above tMin, or just below it when
\* tMax < tMin
SpacingExp(tMin, tMax) ==
    52 - BinadeExp(IF tMax < tMin THEN tMin - 1 ELSE tMin)

\* 2^k modulo GridN - 1, for 26 <= k <= 53
Pow2Mod(k) == ((2^26 % (GridN - 1)) * (2^(k - 26) % (GridN - 1))) % (GridN - 1)

\* |dt| comes out larger than |tMax - tMin| / (GridN - 1): xvals[1] was
\* rounded away from tMin, the fraction being above one half.  For tMin = 0
\* nothing is rounded in the sum.
DtTooLong(tMin, tMax) ==
    /\ tMin >= 1
    /\ 2 * (((IF tMax > tMin THEN tMax - tMin ELSE tMin - tMax)
             * Pow2Mod(SpacingExp(tMin, tMax))) % (GridN - 1)) > GridN - 1

\* int((x - tMin) / dt) for tMin # tMax and x between them: a quotient that
\* is a whole number q >= 1 in exact arithmetic comes out just below q, and
\* is truncated to q - 1, when dt is too long
GridIndex(x, tMin, tMax) ==
    LET num == (IF tMax > tMin THEN x - tMin ELSE tMin - x) * (GridN - 1)
        den == IF tMax > tMin THEN tMax - tMin ELSE tMin - tMax
        q == num \div den
    IN IF num % den = 0 /\ q >= 1 /\ DtTooLong(tMin, tMax) THEN q - 1 ELSE q

\* a non-empty slice of a curve, named by the Poisson means at the two ends
\* of the curve's grid
Slice(c, i1, i2) ==
    [nev |-> c.nev, mu0 |-> c.rate * c.tMin, mu1 |-> c.rate * c.tMax,
     i1 |-> i1, i2 |-> i2]

\* the curve for nev is built and stored on every pass, replacing the entry
EnsureCurve_Rebuilt(cache, nev, rate, tMin, tMax) ==
    (nev :> Curve(nev, rate, tMin, tMax)) @@ cache

\* if nev not in poissonIntCache: poissonIntCache[nev] = ...
EnsureCurve(cache, nev, rate, tMin, tMax) ==
    IF nev \in DOMAIN cache THEN cache
    ELSE cache @@ (nev :> Curve(nev, rate, tMin, tMax))

\* the loop of lines 181-196 over the remaining events evs
RECURSIVE IntegralWalk(_, _, _, _, _, _, _, _, _)
IntegralWalk(cache, evs, rate, tMin, tMax, t, nev, segs, tot) ==
    IF evs = <<>> THEN [raised |-> FALSE, cache |-> cache, segs |-> segs, tot |-> tot]
    ELSE IF Head(evs) < tMin
    THEN IntegralWalk(cache, Tail(evs), rate, tMin, tMax, t, nev, segs, tot)
    ELSE IF tMin = tMax
    THEN [raised |-> TRUE, cache |-> cache, segs |-> segs, tot |-> tot]
    ELSE LET ev == IF Head(evs) > tMax THEN tMax ELSE Head(evs)
             i1 == GridIndex(t, tMin, tMax)
             i2 == GridIndex(ev, tMin, tMax)
             cache2 == EnsureCurve(cache, nev, rate, tMin, tMax)
             segs2 == IF i1 < i2 THEN Append(segs, Slice(cache2[nev], i1, i2))
                      ELSE segs
             tot2 == AddCls(tot, SliceCls(cache2[nev], i1, i2))
         IN IF ev = tMax
            THEN [raised |-> FALSE, cache |-> cache2, segs |-> segs2, tot |-> tot2]
            ELSE IntegralWalk(cache2, Tail(evs), rate, tMin, tMax, ev, nev + 1,
                              segs2, tot2)

\* tot * dt
IntegralValue(tot, segs, dtNum) ==
    LET cls == TimesDtCls(tot, dtNum)
    IN IF cls \in {"pos", "neg"}
       THEN [cls |-> cls, segs |-> segs, dtNum |-> dtNum]
       ELSE [cls |-> cls, segs |-> <<>>, dtNum |-> 0]

\* [res, cache: the cache afterwards, caller: the caller's sequence afterwards]
poissonIntegral(cache, events, rate, tMin, tMax) ==
    LET h == ListAppend(ListSort(ListCopy(events)), tMax)
        w == IntegralWalk(cache, h.work, rate, tMin, tMax, tMin, 0, <<>>, "zero")
    IN [res |-> IF w.raised THEN Raise("ValueError")
                ELSE Return(IntegralValue(w.tot, w.segs, tMax - tMin)),
        cache |-> w.cache,
        caller |-> h.caller]

(***************************************************************************)
(* poissonIntegralBlame (line 220).                                        *)
(***************************************************************************)
RatioCls(a, b) ==
    IF a = "nan" \/ b = "nan" THEN "nan"
    ELSE IF a = "zero" /\ b = "zero" THEN "nan"
    ELSE IF a \in {"inf", "ninf"} /\ b \in {"inf", "ninf"} THEN "nan"
    ELSE IF b = "zero" THEN "inf"
    ELSE IF a = "zero" \/ b \in {"inf", "ninf"} THEN "zero"
    ELSE IF a \in {"inf", "ninf"} THEN "inf"
    ELSE "fin"

\* pp1 / pp2
IntegralRatio(a, b) ==
    LET cls == RatioCls(a.cls, b.cls)
    IN IF cls = "fin" THEN [cls |-> cls, num |-> a, den |-> b]
       ELSE [cls |-> cls, num |-> <<>>, den |-> <<>>]

\* the loop over i in range(n), n = len(ev) taken once at the start
RECURSIVE IntegralBlameLoop(_, _, _, _, _, _, _, _)
IntegralBlameLoop(cache, ev, rate, xMin, xMax, n, i, pp) ==
    IF i >= n THEN [res |-> AssertNoNaN(pp), cache |-> cache, caller |-> ev]
    ELSE LET ev2 == ListPop(ListCopy(ev), i)
             r1 == poissonIntegral(cache, ev2.caller, rate, xMin, xMax)
             r2 == poissonIntegral(r1.cache, ev2.work, rate, xMin, xMax)
         IN IF r1.res.kind = "raise"
            THEN [res |-> r1.res, cache |-> r1.cache, caller |-> r1.caller]
            ELSE IF r2.res.kind = "raise"
            THEN [res |-> r2.res, cache |-> r2.cache, caller |-> r1.caller]
            ELSE IntegralBlameLoop(r2.cache, r1.caller, rate, xMin, xMax, n, i + 1,
                                   Append(pp, IntegralRatio(r1.res.val, r2.res.val)))

poissonIntegralBlame(cache, ev, rate, xMin, xMax) ==
    IntegralBlameLoop(cache, ev, rate, xMin, xMax, Len(ev), 0, <<>>)

(***************************************************************************)
(* poissonProcess (line 108).  The exponential draws are the inputs: the   *)
(* run consumes them one per pass of the loop.  1./rate raises for         *)
(* rate = 0 and np.random.exponential rejects a negative scale.            *)
(***************************************************************************)
None == 0 - 1

RECURSIVE ProcessLoop(_, _, _, _, _)
ProcessLoop(tmax, n, draws, t, events) ==
    IF draws = <<>> THEN [done |-> FALSE, events |-> events, rest |-> draws]
    ELSE LET t2 == t + Head(draws)
         IN IF tmax # None /\ t2 > tmax
            THEN [done |-> TRUE, events |-> events, rest |-> Tail(draws)]
            ELSE IF n # None /\ Len(events) + 1 >= n
            THEN [done |-> TRUE, events |-> Append(events, t2), rest |-> Tail(draws)]
            ELSE ProcessLoop(tmax, n, Tail(draws), t2, Append(events, t2))

\* the run on the given draws; done only if the loop ends on the last of them
poissonProcess(rate, tmax, n, draws) ==
    IF rate = 0 THEN [done |-> TRUE, rest |-> Tail(draws), res |-> Raise("ZeroDivisionError")]
    ELSE IF rate < 0 THEN [done |-> TRUE, rest |-> Tail(draws), res |-> Raise("ValueError")]
    ELSE LET w == ProcessLoop(tmax, n, draws, 0, <<>>)
         IN [done |-> w.done, rest |-> w.rest, res |-> Return(w.events)]

MaxDraws == MaxLen + 1
DrawSeqs == UNION {[1..k -> 1..(MaxT + 1)] : k \in 1..MaxDraws}
OptTimes == Times \cup {None}
OptCounts == (0..MaxLen) \cup {None}

(***************************************************************************)
(* ColorMapper (ColorMapper.py): the file combo, loadedFile and the         *)
(* directory filePath.                                                     *)
(*   filePath    self.filePath: the directory, or unset (the default)      *)
(*   files       names of the regular files in the directory               *)
(*   subdirs     names of the entries of the directory that are not files  *)
(*   comboItems  the entries of fileCombo                                  *)
(*   comboText   fileCombo.currentText(); index 0 is the entry "Load..."   *)
(*   loadedFile  self.loadedFile                                           *)
(*   lastCM      the method that ran last and what it did                  *)
(***************************************************************************)
Placeholder == "Load..."
Unset == "None"
Dir == "dir"
NoText == ""
FileNames == {"a.cfg", "b.cfg"}
DirNames == {"sub"}

\* refreshFileList: nothing is done when filePath is None; else combo.clear(),
\* addItem for "Load..." and every os.listdir entry, setCurrentIndex on the
\* entry equal to loadedFile, else on 0
refreshFileList(fp, fs, sd, lf, items, text) ==
    IF fp = Unset THEN [items |-> items, text |-> text]
    ELSE [items |-> {Placeholder} \cup fs \cup sd,
          text |-> IF lf \in fs \cup sd THEN lf ELSE Placeholder]

\* fileCombo.currentIndex() == 0: the combo is on its first entry, "Load..."
\* (an empty combo has index -1)
IndexZero == comboText = Placeholder /\ Placeholder \in comboItems

NoSlot == [op |-> "none"]

\* no ColorMapper widget exists
ColorMapperAbsent ==
    /\ filePath = Unset
    /\ files = {}
    /\ subdirs = {}
    /\ comboItems = {}
    /\ comboText = NoText
    /\ loadedFile = Unset
    /\ lastCM = NoSlot

\* ColorMapper.__init__: without filePath the combo is left as set up, with no
\* entry; with it the directory may hold any of the names
ColorMapperBuilt ==
    /\ filePath \in {Unset, Dir}
    /\ files \in SUBSET FileNames
    /\ subdirs \in SUBSET DirNames
    /\ filePath = Unset => (files = {} /\ subdirs = {})
    /\ loadedFile = Unset
    /\ comboItems = refreshFileList(filePath, files, subdirs, Unset, {}, NoText).items
    /\ comboText = refreshFileList(filePath, files, subdirs, Unset, {}, NoText).text
    /\ lastCM = NoSlot

\* the user picks another entry: currentIndexChanged runs load(ind).
\* os.path.join(None, name) raises.
Load ==
    /\ \E name \in comboItems \ {comboText} :
          /\ comboText' = name
          /\ loadedFile' = IF name # Placeholder /\ filePath # Unset /\ name \in files
                           THEN name ELSE loadedFile
          /\ lastCM' = [op |-> "load", text |-> name,
                        raised |-> (name # Placeholder /\ filePath = Unset),
                        loaded |-> (name # Placeholder /\ filePath # Unset
                                    /\ name \in files)]
    /\ UNCHANGED <<filePath, files, subdirs, comboItems>>
    /\ UNCHANGED mapperVars

\* the user finishes editing the combo's text: editingFinished runs save();
\* os.path.join(None, name) raises, and so does writing to the name of an
\* entry that is not a file
Save ==
    /\ \E name \in FileNames \cup DirNames \cup {Placeholder} :
          IF name = Placeholder \/ filePath = Unset \/ name \in subdirs
          THEN /\ comboText' = name
               /\ lastCM' = [op |-> "save", text |-> name,
                             raised |-> (name # Placeholder)]
               /\ UNCHANGED <<files, comboItems, loadedFile>>
          ELSE /\ files' = files \cup {name}
               /\ loadedFile' = name
               /\ comboItems' = refreshFileList(filePath, files', subdirs, name,
                                                comboItems, name).items
               /\ comboText' = refreshFileList(filePath, files', subdirs, name,
                                               comboItems, name).text
               /\ lastCM' = [op |-> "save", text |-> name, raised |-> FALSE]
    /\ UNCHANGED <<filePath, subdirs>>
    /\ UNCHANGED mapperVars

\* delBtn clicked: delete().  os.path.join raises when filePath or loadedFile
\* is None, and os.remove raises for a name that is not there
Delete ==
    /\ IF IndexZero
       THEN /\ lastCM' = [op |-> "delete", text |-> comboText,
                          onEntry |-> TRUE,
                          loadedFile |-> loadedFile, removed |-> Unset,
                          raised |-> FALSE]
            /\ UNCHANGED <<files, comboItems, comboText, loadedFile>>
       ELSE IF filePath = Unset \/ loadedFile \notin files
       THEN /\ lastCM' = [op |-> "delete", text |-> comboText,
                          onEntry |-> (comboText \in comboItems),
                          loadedFile |-> loadedFile, removed |-> Unset,
                          raised |-> TRUE]
            /\ UNCHANGED <<files, comboItems, comboText, loadedFile>>
       ELSE /\ files' = files \ {loadedFile}
            /\ loadedFile' = Unset
            /\ comboItems' = refreshFileList(filePath, files', subdirs, Unset,
                                             comboItems, comboText).items
            /\ comboText' = refreshFileList(filePath, files', subdirs, Unset,
                                            comboItems, comboText).text
            /\ lastCM' = [op |-> "delete", text |-> comboText,
                          onEntry |-> (comboText \in comboItems),
                          loadedFile |-> loadedFile, removed |-> loadedFile,
                          raised |-> FALSE]
    /\ UNCHANGED <<filePath, subdirs>>
    /\ UNCHANGED mapperVars

\* a caller runs refreshFileList() on its own; the combo's signals are
\* blocked, so load does not run
RefreshFileList ==
    /\ comboItems' = refreshFileList(filePath, files, subdirs, loadedFile,
                                     comboItems, comboText).items
    /\ comboText' = refreshFileList(filePath, files, subdirs, loadedFile,
                                    comboItems, comboText).text
    /\ lastCM' = [op |-> "refreshFileList", text |-> comboText']
    /\ UNCHANGED <<filePath, files, subdirs, loadedFile>>
    /\ UNCHANGED mapperVars

(***************************************************************************)
(* State.                                                                  *)
(*   poissonProbBinding  what the global name poissonProb is bound to      *)
(*   poissonIntCache     the module-level dict, event count -> curve       *)
(*   last                the call just made: its arguments, its outcome,   *)
(*                       the caller's sequence afterwards                  *)
(*   nCalls              number of calls made                              *)
(*   optimized           the interpreter runs with -O: assert statements   *)
(*                       are not executed                                  *)
(***************************************************************************)
NoCall == [op |-> "none"]
EmptyCache == <<>>

Init ==
    /\ poissonProbBinding = "undefined"
    /\ poissonIntCache = EmptyCache
    /\ last = NoCall
    /\ nCalls = 0
    /\ optimized \in BOOLEAN
    /\ ColorMapperAbsent

\* lines 108-231 executed: the first def of poissonProb, poissonIntCache = {}
ExecFirstDefs ==
    /\ poissonProbBinding = "undefined"
    /\ poissonProbBinding' = "windowed"
    /\ poissonIntCache' = EmptyCache
    /\ UNCHANGED <<last, nCalls>>
    /\ UNCHANGED <<optimized, cmVars>>

\* lines 248-282 executed: the second def of poissonProb rebinds the name
ExecSecondDefs ==
    /\ poissonProbBinding = "windowed"
    /\ last = NoCall
    /\ poissonProbBinding' = "atLeastN"
    /\ UNCHANGED <<poissonIntCache, last, nCalls>>
    /\ UNCHANGED <<optimized, cmVars>>

CanCall ==
    /\ poissonProbBinding # "undefined"
    /\ last = NoCall
    /\ nCalls < MaxCalls

CallPoissonScore ==
    /\ CanCall
    /\ \E events \in EventSeqs, rate \in Rates :
         last' = [op |-> "poissonScore", binding |-> poissonProbBinding,
                  events |-> events, rate |-> rate,
                  result |-> poissonScore(poissonProbBinding, events, rate),
                  eventsAfter |-> events,
                  cacheBefore |-> poissonIntCache]
    /\ nCalls' = nCalls + 1
    /\ UNCHANGED <<poissonProbBinding, poissonIntCache>>
    /\ UNCHANGED <<optimized, cmVars>>

CallPoissonScoreBlame ==
    /\ CanCall
    /\ \E events \in EventSeqs, rate \in Rates :
         LET r == poissonScoreBlame(poissonProbBinding, events, rate)
         IN last' = [op |-> "poissonScoreBlame", binding |-> poissonProbBinding,
                     events |-> events, rate |-> rate,
                     result |-> r.res, eventsAfter |-> r.caller,
                     cacheBefore |-> poissonIntCache]
    /\ nCalls' = nCalls + 1
    /\ UNCHANGED <<poissonProbBinding, poissonIntCache>>
    /\ UNCHANGED <<optimized, cmVars>>

CallPoissonIntegral ==
    /\ CanCall
    /\ \E events \in EventSeqs, rate \in Rates, tMin \in Times, tMax \in Times :
         LET r == poissonIntegral(poissonIntCache, events, rate, tMin, tMax)
         IN /\ last' = [op |-> "poissonIntegral", binding |-> poissonProbBinding,
                        events |-> events, rate |-> rate,
                        tMin |-> tMin, tMax |-> tMax,
                        result |-> r.res, eventsAfter |-> r.caller,
                        cacheBefore |-> poissonIntCache]
            /\ poissonIntCache' = r.cache
    /\ nCalls' = nCalls + 1
    /\ UNCHANGED poissonProbBinding
    /\ UNCHANGED <<optimized, cmVars>>

CallPoissonIntegralBlame ==
    /\ CanCall
    /\ \E events \in EventSeqs, rate \in Rates, tMin \in Times, tMax \in Times :
         LET r == poissonIntegralBlame(poissonIntCache, events, rate, tMin, tMax)
         IN /\ last' = [op |-> "poissonIntegralBlame", binding |-> poissonProbBinding,
                        events |-> events, rate |-> rate,
                        tMin |-> tMin, tMax |-> tMax,
                        result |-> r.res, eventsAfter |-> r.caller,
                        cacheBefore |-> poissonIntCache]
            /\ poissonIntCache' = r.cache
    /\ nCalls' = nCalls + 1
    /\ UNCHANGED poissonProbBinding
    /\ UNCHANGED <<optimized, cmVars>>

CallPoissonProcess ==
    /\ CanCall
    /\ \E rate \in Rates, tmax \in OptTimes, n \in OptCounts, draws \in DrawSeqs :
         LET r == poissonProcess(rate, tmax, n, draws)
         IN /\ r.done
            /\ r.rest = <<>>
            /\ last' = [op |-> "poissonProcess", binding |-> poissonProbBinding,
                        rate |-> rate, tmax |-> tmax, n |-> n, draws |-> draws,
                        result |-> r.res,
                        cacheBefore |-> poissonIntCache]
    /\ nCalls' = nCalls + 1
    /\ UNCHANGED <<poissonProbBinding, poissonIntCache>>
    /\ UNCHANGED <<optimized, cmVars>>

\* a direct call poissonProb(events, xvals, rate, correctForSelection) while the
\* name is bound to the first definition
CallPoissonProbWindowed ==
    /\ CanCall
    /\ poissonProbBinding = "windowed"
    /\ \E events \in EventSeqs, xvals \in EventSeqs, rate \in 1..MaxRate,
          correctForSelection \in BOOLEAN :
         last' = [op |-> "poissonProbWindowed", binding |-> poissonProbBinding,
                  events |-> events, xvals |-> xvals, rate |-> rate,
                  correctForSelection |-> correctForSelection,
                  result |-> poissonProbWindowed(events, xvals, rate,
                                                 correctForSelection),
                  eventsAfter |-> events,
                  cacheBefore |-> poissonIntCache]
    /\ nCalls' = nCalls + 1
    /\ UNCHANGED <<poissonProbBinding, poissonIntCache>>
    /\ UNCHANGED <<optimized, cmVars>>

\* a direct call poissonProb(n, t, l) once the name is bound to the second
\* definition
CallPoissonProbAtLeastN ==
    /\ CanCall
    /\ poissonProbBinding = "atLeastN"
    /\ \E n \in 1..(MaxLen + 1), t \in Times, l \in 1..MaxRate :
         last' = [op |-> "poissonProbAtLeastN", binding |-> poissonProbBinding,
                  n |-> n, t |-> t, rate |-> l,
                  result |-> poissonProbAtLeastN(n, t, l),
                  cacheBefore |-> poissonIntCache]
    /\ nCalls' = nCalls + 1
    /\ UNCHANGED <<poissonProbBinding, poissonIntCache>>
    /\ UNCHANGED <<optimized, cmVars>>

\* the caller takes the outcome and goes on
ReturnToCaller ==
    /\ last # NoCall
    /\ last' = NoCall
    /\ UNCHANGED <<poissonProbBinding, poissonIntCache, nCalls>>
    /\ UNCHANGED <<optimized, cmVars>>

Next ==
    \/ ExecFirstDefs
    \/ ExecSecondDefs
    \/ CallPoissonScore
    \/ CallPoissonScoreBlame
    \/ CallPoissonIntegral
    \/ CallPoissonIntegralBlame
    \/ CallPoissonProcess
    \/ CallPoissonProbWindowed
    \/ CallPoissonProbAtLeastN
    \/ ReturnToCaller

Spec == Init /\ [][Next]_vars

\* the module is loaded and a single call is made, on the empty cache
FirstCall == nCalls = 0

NextFirstCall ==
    \/ ExecFirstDefs
    \/ FirstCall /\ ExecSecondDefs
    \/ FirstCall /\ CallPoissonScore
    \/ FirstCall /\ CallPoissonScoreBlame
    \/ FirstCall /\ CallPoissonIntegral
    \/ FirstCall /\ CallPoissonIntegralBlame
    \/ FirstCall /\ CallPoissonProcess
    \/ FirstCall /\ CallPoissonProbWindowed
    \/ FirstCall /\ CallPoissonProbAtLeastN
    \/ ReturnToCaller

SpecFirstCall == Init /\ [][NextFirstCall]_vars

\* all the definitions are executed and the cache is empty or as an earlier
\* poissonIntegral call on an empty sequence left it; one call is made
InitWarmCache ==
    /\ poissonProbBinding = "atLeastN"
    /\ \E rate \in Rates, tMin \in Times, tMax \in Times :
          poissonIntCache = poissonIntegral(EmptyCache, <<>>, rate, tMin, tMax).cache
    /\ last = NoCall
    /\ nCalls = 0
    /\ optimized \in BOOLEAN
    /\ ColorMapperAbsent

NextWarmCache ==
    \/ FirstCall /\ CallPoissonScore
    \/ FirstCall /\ CallPoissonScoreBlame
    \/ FirstCall /\ CallPoissonIntegral
    \/ FirstCall /\ CallPoissonIntegralBlame
    \/ FirstCall /\ CallPoissonProcess
    \/ FirstCall /\ CallPoissonProbAtLeastN
    \/ ReturnToCaller

SpecWarmCache == InitWarmCache /\ [][NextWarmCache]_vars

\* a ColorMapper widget and the user's actions on it
InitColorMapper ==
    /\ poissonProbBinding = "undefined"
    /\ poissonIntCache = EmptyCache
    /\ last = NoCall
    /\ nCalls = 0
    /\ optimized = FALSE
    /\ ColorMapperBuilt

NextColorMapper ==
    \/ Load
    \/ Save
    \/ Delete
    \/ RefreshFileList

SpecColorMapper == InitColorMapper /\ [][NextColorMapper]_vars

(***************************************************************************)
(* Properties.                                                             *)
(***************************************************************************)
CoreOps == {"poissonScore", "poissonIntegral", "poissonScoreBlame",
            "poissonIntegralBlame", "poissonProcess"}
BlameOps == {"poissonScoreBlame", "poissonIntegralBlame"}
SequenceOps == {"poissonScore", "poissonIntegral", "poissonScoreBlame",
                "poissonIntegralBlame"}

\* C1: for every rate > 0, poissonScore of the empty sequence returns exactly 1.0.
C1_EmptyScoreIsOne ==
    (last.op = "poissonScore" /\ last.events = <<>> /\ last.rate > 0)
        => last.result = Return(One)

\* C2: every core operation called with rate <= 0 fails with an error, whatever
\* the event sequence; it never returns a value.  (Stated for the calls made
\* once all the module's definitions are executed.)
C2_NonPositiveRateFails ==
    (last.op \in CoreOps /\ last.binding = "atLeastN" /\ last.rate <= 0)
        => last.result.kind = "raise"

\* C3: poissonIntegral called with tMin >= tMax fails, returns no value and adds
\* no entry to the interval-probability cache.  (Stated for rate > 0.)
C3_BadWindowFails ==
    (last.op = "poissonIntegral" /\ last.rate > 0 /\ last.tMin >= last.tMax)
        => (last.result.kind = "raise" /\ poissonIntCache = last.cacheBefore)

\* C4: no poissonIntegral call reads a curve built under another rate or grid:
\* its result is the result of the same call on an empty cache.  (Stated for
\* calls with rate > 0 and tMin < tMax on a cache built by such calls.)
ValidConfig(rate, tMin, tMax) == rate > 0 /\ tMin < tMax
C4_ResultAsFromEmptyCache ==
    (/\ last.op = "poissonIntegral"
     /\ ValidConfig(last.rate, last.tMin, last.tMax)
     /\ \A k \in DOMAIN last.cacheBefore :
            ValidConfig(last.cacheBefore[k].rate, last.cacheBefore[k].tMin,
                        last.cacheBefore[k].tMax))
        => last.result = poissonIntegral(EmptyCache, last.events, last.rate,
                                         last.tMin, last.tMax).res

\* C5: a blame vector that is returned has no NaN entry: the call returns a
\* vector of non-NaN numbers or raises and returns nothing.  (The assert that
\* guards this is not executed under -O.)
C5_BlameNeverReturnsNaN ==
    (last.op \in BlameOps /\ last.result.kind = "return")
        => \A j \in 1..Len(last.result.val) : last.result.val[j].cls # "nan"

\* C6: for every input of length L (L = 0 included) both blame operations
\* return a vector of exactly L entries.  (Stated for rate > 0.)
C6_BlameLength ==
    (last.op \in BlameOps /\ last.rate > 0)
        => (last.result.kind = "return" /\ Len(last.result.val) = Len(last.events))

\* C7: the caller's event sequence is the same after poissonScore,
\* poissonIntegral, poissonScoreBlame and poissonIntegralBlame as before.
C7_CallerSequenceUnchanged ==
    (last.op \in SequenceOps) => last.eventsAfter = last.events

\* an integral-blame call on an unsorted two-event sequence that returned: the
\* copies were popped, sorted and extended by tMax
C7_Witness ==
    /\ last.op = "poissonIntegralBlame"
    /\ last.events = <<2, 1>>
    /\ last.result.kind = "return"
    /\ Len(last.result.val) = 2

CountAtOrBefore(events, x) == Cardinality({j \in 1..Len(events) : events[j] <= x})

\* 1 - CDF(c; rate*(x + e)), c the number of the given events at or before x
ExceedanceByCount(events, x, rate, correctForSelection) ==
    OneMinus(PoissonCdf(CountAtOrBefore(events, x),
                        WindowedMu(x, rate, correctForSelection)))

\* C8: windowed poissonProb gives, for window end x, 1 - CDF(c; rate*(x + e))
\* with c the number of events of the given sequence at or before x.
C8_CountsGivenEvents ==
    (last.op = "poissonProbWindowed")
        => last.result =
             Return([i \in 1..Len(last.xvals) |->
                        ExceedanceByCount(last.events, last.xvals[i], last.rate,
                                          last.correctForSelection)])

\* event i (1-based) removed
Without(ev, i) == [j \in 1..(Len(ev) - 1) |-> IF j < i THEN ev[j] ELSE ev[j + 1]]

\* max over the window ends ev[i..] of (1/p with event i) / (1/p without it)
SuffixMaxRatio(ev, rate, i) ==
    FloatMax([j \in 1..(Len(ev) - i + 1) |->
                 FloatDiv(Recip(ExceedanceByCount(ev, ev[j + i - 1], rate, FALSE)),
                          Recip(ExceedanceByCount(Without(ev, i), ev[j + i - 1],
                                                  rate, FALSE)))])

\* C9: score-blame entry i is the maximum over the window ends of the suffix
\* starting at event i of (1/probability with event i) / (1/probability
\* without event i).
C9_ScoreBlameSuffixMax ==
    (last.op = "poissonScoreBlame" /\ last.rate > 0)
        => last.result =
             Return([i \in 1..Len(last.events) |->
                        SuffixMaxRatio(last.events, last.rate, i)])

\* min over the prefixes i of the corrected probability of i or more events in
\* [0, events[i]]: 1 - CDF(i - 1; rate*events[i] + 1)
MinPrefixProb(events, rate) ==
    FloatMin([i \in 1..Len(events) |->
                 OneMinus(PoissonCdf(i - 1, WindowedMu(events[i], rate, TRUE)))])

\* C10: for a non-empty sequence poissonScore returns (1/p_min) / sqrt(rate),
\* p_min the minimum over the prefixes of the probability of i or more events.
C10_ScoreFromMinPrefix ==
    (last.op = "poissonScore" /\ Len(last.events) > 0 /\ last.rate > 0)
        => last.result =
             Return(FloatDiv(Recip(MinPrefixProb(last.events, last.rate)),
                             SqrtRate(last.rate)))

\* C11: the three-argument poissonProb(n, t, l) is non-decreasing in t for fixed
\* n and l: its value at every t1 with 0 <= t1 <= t is at most its value at t.
C11_NonDecreasingInT ==
    (last.op = "poissonProbAtLeastN")
        => \A t1 \in 0..last.t :
              poissonProbAtLeastN(last.n, t1, last.rate).val.v <= last.result.val.v

\* C12: the three-argument poissonProb(n, t, l) is non-increasing in n for fixed
\* t and l: its value at every n1 with 1 <= n1 <= n is at least its value at n.
C12_NonIncreasingInN ==
    (last.op = "poissonProbAtLeastN")
        => \A n1 \in 1..last.n :
              poissonProbAtLeastN(n1, last.t, last.rate).val.v >= last.result.val.v

\* C13: for rate > 0 poissonProcess returns times in ascending order, all
\* <= tmax when tmax is given, and at most n of them when n is given (n >= 0).
C13_ProcessWithinLimits ==
    (last.op = "poissonProcess" /\ last.rate > 0)
        => /\ last.result.kind = "return"
           /\ \A j \in 1..(Len(last.result.val) - 1) :
                  last.result.val[j] <= last.result.val[j + 1]
           /\ last.tmax # None
                  => \A j \in 1..Len(last.result.val) : last.result.val[j] <= last.tmax
           /\ last.n # None => Len(last.result.val) <= last.n

\* the slices summed by the poissonIntegral call recorded in last
SegmentsSummed ==
    IntegralWalk(last.cacheBefore,
                 ListAppend(ListSort(ListCopy(last.events)), last.tMax).work,
                 last.rate, last.tMin, last.tMax, last.tMin, 0, <<>>, "zero").segs

\* number of the events in the window (those before tMin left out, those after
\* tMax taken at tMax) whose grid index is at or before j
InWindowAtOrBefore(events, tMin, tMax, j) ==
    Cardinality({k \in 1..Len(events) :
                    /\ events[k] >= tMin
                    /\ GridIndex(IF events[k] > tMax THEN tMax ELSE events[k],
                                 tMin, tMax) <= j})

\* the slices follow one another from grid index 0 and each is taken from the
\* curve for the number of in-window events at or before its indices
SegmentsContiguous(segs) ==
    /\ Len(segs) >= 1
    /\ segs[1].i1 = 0
    /\ \A k \in 1..(Len(segs) - 1) : segs[k].i2 = segs[k + 1].i1
    /\ \A k \in 1..Len(segs) : \A j \in {segs[k].i1, segs[k].i2 - 1} :
           segs[k].nev = InWindowAtOrBefore(last.events, last.tMin, last.tMax, j)
    /\ last.events = <<>> => (Len(segs) = 1 /\ segs[1].nev = 0)

\* C14: in poissonIntegral with tMin < tMax the slices summed are contiguous and
\* disjoint and reach from grid index 0 to the grid point of tMax, xvals[GridN-1]
\* (every index below it is accumulated exactly once), each with the curve for
\* the number of in-window events at or before it; an empty sequence gives one
\* slice with count 0.  (Stated for rate > 0.)
C14_SegmentsCoverWindow ==
    (last.op = "poissonIntegral" /\ last.rate > 0 /\ last.tMin < last.tMax)
        => /\ SegmentsContiguous(SegmentsSummed)
           /\ SegmentsSummed[Len(SegmentsSummed)].i2 = GridN - 1

CacheOps == {"poissonIntegral", "poissonIntegralBlame"}

\* C15: a call of a core operation leaves every cache entry it found in place
\* and unchanged; an entry is added only by poissonIntegral and
\* poissonIntegralBlame, only for a count k that had no entry and that the
\* call's walk reaches (k is at most the number of events at or after tMin),
\* and it is the curve of the call's rate and window; poissonScore,
\* poissonScoreBlame and poissonProcess leave the cache as it was.
C15_CacheLazyAndStable ==
    (last.op \in CoreOps)
        => /\ \A k \in DOMAIN last.cacheBefore :
                  k \in DOMAIN poissonIntCache
                  /\ poissonIntCache[k] = last.cacheBefore[k]
           /\ \A k \in (DOMAIN poissonIntCache) \ (DOMAIN last.cacheBefore) :
                  /\ last.op \in CacheOps
                  /\ poissonIntCache[k] = Curve(k, last.rate, last.tMin, last.tMax)
                  /\ k <= Cardinality({j \in 1..Len(last.events) :
                                          last.events[j] >= last.tMin})
           /\ last.op \notin CacheOps => poissonIntCache = last.cacheBefore

\* a poissonIntegral call that found the curve for count 0 of another rate or
\* window in the cache, kept it, and built the curve for count 1
C15_Witness ==
    /\ last.op = "poissonIntegral"
    /\ last.rate > 0 /\ last.tMin < last.tMax
    /\ 0 \in DOMAIN last.cacheBefore
    /\ last.cacheBefore[0] # Curve(0, last.rate, last.tMin, last.tMax)
    /\ 1 \notin DOMAIN last.cacheBefore
    /\ 1 \in DOMAIN poissonIntCache

\* C16: once all the module's definitions are executed, the poissonProb calls
\* made by poissonScore and poissonScoreBlame reach the windowed definition,
\* so no such call is rejected for its arguments (TypeError).
C16_ScoreCallsResolveWindowed ==
    (last.op \in {"poissonScore", "poissonScoreBlame"} /\ last.binding = "atLeastN")
        => last.result # Raise("TypeError")

\* C17: when delete runs with the file combo on an entry other than "Load...",
\* loadedFile is set and is the combo's current text, and that is the file
\* removed.
C17_DeleteRemovesSelection ==
    (lastCM.op = "delete" /\ lastCM.onEntry /\ lastCM.text # Placeholder)
        => /\ lastCM.loadedFile # Unset
           /\ lastCM.loadedFile = lastCM.text
           /\ lastCM.removed = lastCM.text

====
